---- MODULE Spec2Model ----
(***************************************************************************)
(* fuse4redis: entries of a redis database exposed as files of a FUSE      *)
(* file system (src/fuse4redis.c).  The model has three layers, as the     *)
(* source has: the command executor kvs_RedisCommand with its reconnect    *)
(* loop, the kvs_* primitives built on it, and the f4r_* callbacks the     *)
(* FUSE dispatcher invokes.  The redis server is the environment: each     *)
(* command is applied atomically, a reply may be lost in transport.        *)
(***************************************************************************)
EXTENDS Integers, Sequences, FiniteSets, TLC

(***************************************************************************)
(* Bounds of the model.                                                    *)
(***************************************************************************)
MaxLen == 3            \* longest value (in bytes) a key may hold
MaxSize == 1025        \* largest length kvs_GetKeyLength reports where only the length matters

Bytes == {0, 1}        \* 0 is the null byte, 1 stands for any other byte
Names == {<<"a">>, <<"b">>}          \* key names (strings as char sequences)
Paths == {<<"/">>} \cup {<<"/">> \o n : n \in Names}
Threads == {"t1", "t2"}              \* dispatcher threads
SeqThreads == {"t1"}                 \* single-threaded dispatch (fuse -s)

BytesOfLen(k) == [1..k -> Bytes]
BytesUpTo(n) == UNION {BytesOfLen(k) : k \in 0..n}

(***************************************************************************)
(* Program constants: errno values, open(2) flags and stat(2) mode bits    *)
(* of the Linux headers the source is compiled against.                    *)
(***************************************************************************)
ENOENT == 2
EIO == 5
EBADF == 9
ENOMEM == 12
EEXIST == 17
ENOTDIR == 20
EISDIR == 21
EINVAL == 22
ENOSYS == 38
EPROTO == 71
O_RDONLY == 0
O_WRONLY == 1
O_ACCMODE == 3
O_CREAT == 64          \* 0100
O_EXCL == 128          \* 0200
O_TRUNC == 512         \* 01000
S_IFMT == 61440        \* 0170000
S_IFREG == 32768       \* 0100000
S_IFDIR == 16384       \* 0040000
S_IRWXUGO == 511       \* S_IRWXU | S_IRWXG | S_IRWXO = 0777
S_IWUSR == 128         \* 0200
S_IRUSR == 256         \* 0400
ST_BLKSIZE == 512
SIZE_T_MOD == 1073741824   \* size_t arithmetic is modular; 2^30 stands for 2^64

Min(a, b) == IF a < b THEN a ELSE b
Max(a, b) == IF a > b THEN a ELSE b

RECURSIVE BitAnd(_, _)
BitAnd(a, b) ==
    IF a = 0 \/ b = 0 THEN 0
    ELSE (IF a % 2 = 1 /\ b % 2 = 1 THEN 1 ELSE 0) + 2 * BitAnd(a \div 2, b \div 2)

\* conversion of an int (possibly a negative errno) to size_t, and back to off_t
ToSizeT(x) == x % SIZE_T_MOD
ToOffT(x) == IF x >= SIZE_T_MOD \div 2 THEN x - SIZE_T_MOD ELSE x

\* #define FILE_NAME(path) (path[0] == '/' ? path + 1 : path)
FILE_NAME(path) == IF Len(path) > 0 /\ path[1] = "/" THEN Tail(path) ELSE path

IsRoot(path) == path = <<"/">>       \* strcmp(path, "/") == 0

\* S_ISREG(mode)
S_ISREG(mode) == BitAnd(mode, S_IFMT) = S_IFREG

(***************************************************************************)
(* The redis server.  A database is a function from the existing keys to   *)
(* their string values.  A command is a record; RedisExec gives the        *)
(* database after the command and the reply the server sends.              *)
(***************************************************************************)
NoReply == [type |-> "NULL", integer |-> 0, str |-> <<>>, element |-> <<>>]
IntegerReply(n) == [type |-> "INTEGER", integer |-> n, str |-> <<>>, element |-> <<>>]
StringReply(s) == [type |-> "STRING", integer |-> 0, str |-> s, element |-> <<>>]
StatusReply == [type |-> "STATUS", integer |-> 0, str |-> <<>>, element |-> <<>>]
ErrorReply == [type |-> "ERROR", integer |-> 0, str |-> <<>>, element |-> <<>>]
ArrayReply(e) == [type |-> "ARRAY", integer |-> 0, str |-> <<>>, element |-> e]

Cmd(name, key, key2, a, b, val) ==
    [name |-> name, key |-> key, key2 |-> key2, a |-> a, b |-> b, val |-> val]
NoCmd == Cmd("", <<>>, <<>>, 0, 0, <<>>)

ValueOf(db, k) == IF k \in DOMAIN db THEN db[k] ELSE <<>>
Put(db, k, v) == [x \in (DOMAIN db) \cup {k} |-> IF x = k THEN v ELSE db[x]]
Drop(db, k) == [x \in (DOMAIN db) \ {k} |-> db[x]]

\* GETRANGE key start end: both ends inclusive, negative indexes count from the end
GetRange(v, start, end) ==
    LET len == Len(v)
        s1 == IF start < 0 THEN len + start ELSE start
        e1 == IF end < 0 THEN len + end ELSE end
        s2 == IF s1 < 0 THEN 0 ELSE s1
        e2 == IF e1 < 0 THEN 0 ELSE e1
        e3 == IF e2 >= len THEN len - 1 ELSE e2
    IN  IF (start < 0 /\ end < 0 /\ start > end) \/ len = 0 \/ s2 > e3
        THEN <<>>
        ELSE SubSeq(v, s2 + 1, e3 + 1)

\* SETRANGE key offset value: zero-pads up to offset, overwrites, keeps the tail
SetRange(old, off, val) ==
    [i \in 1..Max(Len(old), off + Len(val)) |->
        IF i > off /\ i <= off + Len(val) THEN val[i - off]
        ELSE IF i <= Len(old) THEN old[i] ELSE 0]

RedisExec(db, c) ==
    CASE c.name = "SET" ->
           [db |-> Put(db, c.key, c.val), reply |-> StatusReply]
      [] c.name = "EXISTS" ->
           [db |-> db, reply |-> IntegerReply(IF c.key \in DOMAIN db THEN 1 ELSE 0)]
      [] c.name = "DEL" ->
           [db |-> Drop(db, c.key),
            reply |-> IntegerReply(IF c.key \in DOMAIN db THEN 1 ELSE 0)]
      [] c.name = "RENAME" ->
           IF c.key \notin DOMAIN db
           THEN [db |-> db, reply |-> ErrorReply]      \* ERR no such key
           ELSE [db |-> Put(Drop(db, c.key), c.key2, db[c.key]),
                 reply |-> StatusReply]
      [] c.name = "STRLEN" ->
           [db |-> db, reply |-> IntegerReply(Len(ValueOf(db, c.key)))]
      [] c.name = "SETRANGE" ->
           IF Len(c.val) = 0
           THEN [db |-> db, reply |-> IntegerReply(Len(ValueOf(db, c.key)))]
           ELSE [db |-> Put(db, c.key, SetRange(ValueOf(db, c.key), c.a, c.val)),
                 reply |-> IntegerReply(Len(SetRange(ValueOf(db, c.key), c.a, c.val)))]
      [] c.name = "GETRANGE" ->
           [db |-> db, reply |-> StringReply(GetRange(ValueOf(db, c.key), c.a, c.b))]

\* KEYS *: every existing key once, in an order the server chooses
Enumerations(db) ==
    {e \in [1..Cardinality(DOMAIN db) -> DOMAIN db] :
        \A i, j \in DOMAIN e : i # j => e[i] # e[j]}

\* what the server may do with a command: the database after it and the reply
RedisOutcomes(db, c) ==
    IF c.name = "KEYS"
    THEN {[db |-> db, reply |-> ArrayReply(e)] : e \in Enumerations(db)}
    ELSE {RedisExec(db, c)}


(***************************************************************************)
(* State.                                                                  *)
(***************************************************************************)
VARIABLES
    store,      \* the redis database: existing keys -> values
    redisCtx,   \* the process-wide connection handle: "null", "live" or "freed"
    proc,       \* "start" (before kvs_init), "serving", "exited"
    exitCode,   \* argument of exit() once proc = "exited"
    th          \* per dispatcher thread: the callback it runs and its locals

vars == <<store, redisCtx, proc, exitCode, th>>

EmptyStat == [st_mode |-> 0, st_size |-> 0, st_blksize |-> 0, st_blocks |-> 0]

\* A thread that runs no callback.  op/path/path2/mode/size/offset/buf are the
\* callback and its arguments, db0 the database when it was invoked; fpc is the
\* position in the f4r_ callback, kfn the kvs_ function (and the command in it)
\* that is running, kname/ksz/reply1 its locals; ex/cmd/tries/kvsReply are the
\* locals of kvs_RedisCommand, issued/reconnects count what it did in this call;
\* ret/statbuf/rbuf are what the callback handed back.  replies counts the
\* reply objects the thread holds and has not released.  History: lastExcl is
\* the name the previous callback created if it was a successful exclusive
\* mknod, prevOp/prevName say that the previous callback was a successful open
\* with O_CREAT or a successful unlink of that name; second says that this
\* callback is the matching second call on the same name (an exclusive mknod,
\* an open without O_CREAT, an unlink).  cap is the number of entries the
\* directory buffer of readdir can take, delivered the names filler accepted.
\* prevOp also says that the previous callback was a successful mknod without
\* the exclusive bit, and second marks the mknod without it that follows.
\* overlapped says that the callback sent a command while a command of another
\* thread was in flight on the handle.
\* Where pairs of calls are followed more closely, prevOp also says that the
\* previous callback was a successful open (by its access mode) or a getattr
\* (prevRet and prevStat are what it handed back); second then marks the
\* read, write or fgetattr that follows on the same name.
IdleThread ==
    [op |-> "idle", path |-> <<>>, path2 |-> <<>>, mode |-> 0, size |-> 0,
     offset |-> 0, buf |-> <<>>, db0 |-> <<>>,
     fpc |-> "idle", kfn |-> "", kname |-> <<>>, ksz |-> 0, reply1 |-> NoReply,
     ex |-> "none", cmd |-> NoCmd, tries |-> 0, kvsReply |-> NoReply,
     issued |-> 0, reconnects |-> 0, nulls |-> 0, result |-> 0, replies |-> 0,
     ret |-> 0, statbuf |-> EmptyStat, rbuf |-> <<>>,
     lastExcl |-> <<>>, second |-> FALSE,
     cap |-> 0, delivered |-> <<>>, prevOp |-> "", prevName |-> <<>>,
     prevRet |-> 0, prevStat |-> EmptyStat, overlapped |-> FALSE]

(***************************************************************************)
(* kvs_RedisCommand is entered with a command: tries = 0 (line 113).       *)
(***************************************************************************)
StartExec(r, kfn, c) ==
    [r EXCEPT !.kfn = kfn, !.cmd = c, !.ex = "issue", !.tries = 0,
              !.kvsReply = NoReply, !.issued = 0, !.reconnects = 0,
              !.nulls = 0, !.result = 0]

(***************************************************************************)
(* Entry of each kvs_ primitive: up to its first call of kvs_RedisCommand. *)
(***************************************************************************)
kvs_KeyExists(r, name) ==
    StartExec(r, "KeyExists", Cmd("EXISTS", name, <<>>, 0, 0, <<>>))

kvs_GetKeyLength(r, name) ==
    StartExec([r EXCEPT !.kname = name], "GetKeyLength.exists",
              Cmd("EXISTS", name, <<>>, 0, 0, <<>>))

\* faulty variant: the key is asked for its length and left as it is
kvs_CreateEmptyKeyKeepsValue(r, name) ==
    StartExec(r, "CreateEmptyKey", Cmd("STRLEN", name, <<>>, 0, 0, <<>>))

kvs_CreateEmptyKey(r, name) ==
    StartExec(r, "CreateEmptyKey", Cmd("SET", name, <<>>, 0, 0, <<>>))

kvs_DeleteKey(r, name) ==
    StartExec(r, "DeleteKey", Cmd("DEL", name, <<>>, 0, 0, <<>>))

kvs_RenameKey(r, name, newname) ==
    StartExec(r, "RenameKey", Cmd("RENAME", name, newname, 0, 0, <<>>))

\* faulty variant: the null byte is written at offset newsize
kvs_AppendZeroedBytesOneBeyond(r, name, newsize) ==
    StartExec(r, "AppendZeroedBytes",
              Cmd("SETRANGE", name, <<>>, newsize, 0, <<0>>))

\* faulty variant: the whole value is overwritten with newsize null bytes
kvs_AppendZeroedBytesWholeRange(r, name, newsize) ==
    StartExec(r, "AppendZeroedBytes",
              Cmd("SETRANGE", name, <<>>, 0, 0, [i \in 1..newsize |-> 0]))

kvs_AppendZeroedBytes(r, name, newsize) ==
    StartExec(r, "AppendZeroedBytes",
              Cmd("SETRANGE", name, <<>>, newsize - 1, 0, <<0>>))

kvs_TruncateKey(r, name, newsize) ==
    IF newsize > 0
    THEN StartExec([r EXCEPT !.kname = name, !.ksz = newsize, !.reply1 = NoReply],
                   "TruncateKey.getrange",
                   Cmd("GETRANGE", name, <<>>, 0, newsize, <<>>))
    ELSE StartExec([r EXCEPT !.kname = name, !.ksz = newsize, !.reply1 = NoReply],
                   "TruncateKey.set", Cmd("SET", name, <<>>, 0, 0, <<>>))

kvs_ReadPartialValue(r, keyname, size, offset) ==
    StartExec(r, "ReadPartialValue",
              Cmd("GETRANGE", keyname, <<>>, offset, offset + size - 1, <<>>))

kvs_ReadDirectory(r) ==
    StartExec(r, "ReadDirectory", Cmd("KEYS", <<>>, <<>>, 0, 0, <<>>))

\* faulty variant: the offset is not passed on
kvs_WritePartialValueAtStart(r, keyname, buf, offset) ==
    StartExec(r, "WritePartialValue", Cmd("SETRANGE", keyname, <<>>, 0, 0, buf))

kvs_WritePartialValue(r, keyname, buf, offset) ==
    StartExec(r, "WritePartialValue",
              Cmd("SETRANGE", keyname, <<>>, offset, 0, buf))


(***************************************************************************)
(* Return of an f4r_ callback to the dispatcher.  Nothing is kept between  *)
(* calls, so the locals of the kvs_ layer and of the executor vanish.      *)
(***************************************************************************)
Done(r, ret) ==
    [r EXCEPT !.fpc = "done", !.ret = ret, !.kfn = "", !.kname = <<>>, !.ksz = 0,
              !.reply1 = NoReply, !.ex = "none", !.cmd = NoCmd, !.tries = 0,
              !.kvsReply = NoReply, !.issued = 0, !.reconnects = 0, !.nulls = 0,
              !.result = 0]

\* freeReplyObject
Free(r) == [r EXCEPT !.replies = @ - 1]

(***************************************************************************)
(* f4r_getattr after its two kvs_ calls.                                   *)
(***************************************************************************)
\* faulty variant: the block count is rounded down
StBlocksRoundedDown(fsize) == fsize \div ST_BLKSIZE

\* st_blocks = fsize > 0 ? (fsize / 512) + 1 : 0
StBlocks(fsize) == IF fsize > 0 THEN (fsize \div ST_BLKSIZE) + 1 ELSE 0

\* "fsize < 0" and "ksize < 0" compare a size_t with 0
SizeTNegative(x) == FALSE

GetattrAfterExists(r, exists) ==
    IF exists < 0 THEN Done(r, exists)
    ELSE IF exists = 0 THEN Done(r, -ENOENT)
    ELSE kvs_GetKeyLength([r EXCEPT !.fpc = "getattr.length",
                                    !.statbuf.st_mode = S_IRWXUGO + S_IFREG],
                          FILE_NAME(r.path))

GetattrFill(r, fsize) ==
    Done([r EXCEPT !.statbuf.st_size = ToOffT(fsize),
                   !.statbuf.st_blksize = ST_BLKSIZE,
                   !.statbuf.st_blocks = StBlocks(fsize)], 0)

GetattrAfterLength(r, fsize) ==
    IF SizeTNegative(fsize) THEN Done(r, ToOffT(fsize)) ELSE GetattrFill(r, fsize)

(***************************************************************************)
(* f4r_mknod.                                                              *)
(***************************************************************************)
\* "mode & O_EXCL"
ModeHasExcl(mode) == BitAnd(mode, O_EXCL) # 0

\* faulty variant: an existing key does not stop the create
MknodAfterExistsIgnored(r, exists) ==
    IF exists < 0 THEN Done(r, exists)
    ELSE kvs_CreateEmptyKey([r EXCEPT !.fpc = "mknod.create"], FILE_NAME(r.path))

MknodAfterExists(r, exists) ==
    IF exists < 0 THEN Done(r, exists)
    ELSE IF exists # 0 THEN Done(r, -EEXIST)
    ELSE kvs_CreateEmptyKey([r EXCEPT !.fpc = "mknod.create"], FILE_NAME(r.path))

MknodAfterCreate(r, result) == IF result < 0 THEN Done(r, result) ELSE Done(r, 0)

(***************************************************************************)
(* f4r_truncate after kvs_GetKeyLength.                                    *)
(***************************************************************************)
TruncateAfterLength(r, ksize) ==
    IF SizeTNegative(ksize) THEN Done(r, ToOffT(ksize))
    ELSE IF ksize = ToSizeT(r.size) THEN Done(r, 0)
    ELSE IF ToSizeT(r.size) > ksize
         THEN kvs_AppendZeroedBytes([r EXCEPT !.fpc = "truncate.resize"],
                                    FILE_NAME(r.path), r.size)
         ELSE kvs_TruncateKey([r EXCEPT !.fpc = "truncate.resize"],
                              FILE_NAME(r.path), r.size)

(***************************************************************************)
(* f4r_open after kvs_KeyExists.                                           *)
(***************************************************************************)
\* faulty variant: an existing key is emptied whatever the flags are
OpenAfterExistsAlwaysTruncates(r, exists) ==
    IF exists < 0 THEN Done(r, exists)
    ELSE IF exists = 0
         THEN IF BitAnd(r.mode, O_CREAT) # 0
              THEN kvs_CreateEmptyKey([r EXCEPT !.fpc = "open.create"],
                                      FILE_NAME(r.path))
              ELSE Done(r, -ENOENT)
         ELSE kvs_TruncateKey([r EXCEPT !.fpc = "open.trunc"], FILE_NAME(r.path), 0)

\* faulty variant: O_TRUNC is not looked at
OpenAfterExistsNoTruncate(r, exists) ==
    IF exists < 0 THEN Done(r, exists)
    ELSE IF exists = 0
         THEN IF BitAnd(r.mode, O_CREAT) # 0
              THEN kvs_CreateEmptyKey([r EXCEPT !.fpc = "open.create"],
                                      FILE_NAME(r.path))
              ELSE Done(r, -ENOENT)
         ELSE Done(r, 0)

OpenAfterExists(r, exists) ==
    IF exists < 0 THEN Done(r, exists)
    ELSE IF exists = 0
         THEN IF BitAnd(r.mode, O_CREAT) # 0
              THEN kvs_CreateEmptyKey([r EXCEPT !.fpc = "open.create"],
                                      FILE_NAME(r.path))
              ELSE Done(r, -ENOENT)
         ELSE IF BitAnd(r.mode, O_TRUNC) # 0
              THEN kvs_TruncateKey([r EXCEPT !.fpc = "open.trunc"],
                                   FILE_NAME(r.path), 0)
              ELSE Done(r, 0)

OpenAfterChange(r, result) == IF result < 0 THEN Done(r, result) ELSE Done(r, 0)

(***************************************************************************)
(* The f4r_ callback goes on with the value v its kvs_ call returned.      *)
(***************************************************************************)
HandlerResume(r, v) ==
    CASE r.fpc = "getattr.exists" -> GetattrAfterExists(r, v)
      [] r.fpc = "getattr.length" -> GetattrAfterLength(r, v)
      [] r.fpc = "mknod.exists" -> MknodAfterExists(r, v)
      [] r.fpc = "mknod.create" -> MknodAfterCreate(r, v)
      [] r.fpc = "truncate.length" -> TruncateAfterLength(r, v)
      [] r.fpc = "open.exists" -> OpenAfterExists(r, v)
      [] r.fpc \in {"open.create", "open.trunc"} -> OpenAfterChange(r, v)
      [] OTHER -> Done(r, v)      \* unlink, rename, truncate.resize, read, write

(***************************************************************************)
(* Each kvs_ primitive after kvs_RedisCommand returned result and reply.   *)
(***************************************************************************)
KeyExistsResult(result, reply) ==
    IF result < 0 THEN result
    ELSE IF reply.type # "INTEGER" THEN -EPROTO
    ELSE reply.integer

\* every path of kvs_KeyExists that got a reply releases it
KeyExistsFree(r) == IF r.result < 0 THEN r ELSE Free(r)

KeyExistsReturn(r) ==
    HandlerResume(KeyExistsFree(r), KeyExistsResult(r.result, r.kvsReply))

GetKeyLengthAfterExists(r) ==
    LET exists == KeyExistsResult(r.result, r.kvsReply)
    IN  IF exists < 0 THEN HandlerResume(KeyExistsFree(r), ToSizeT(exists))
        ELSE IF exists = 0 THEN HandlerResume(KeyExistsFree(r), ToSizeT(-ENOENT))
        ELSE StartExec(KeyExistsFree(r), "GetKeyLength.strlen",
                       Cmd("STRLEN", r.kname, <<>>, 0, 0, <<>>))

\* faulty variant: the status of the command is returned in place of the length
StrlenResultStatus(result, reply) ==
    IF result < 0 THEN ToSizeT(result)
    ELSE IF reply.type # "INTEGER" THEN ToSizeT(-EPROTO)
    ELSE ToSizeT(result)

StrlenResult(result, reply) ==
    IF result < 0 THEN ToSizeT(result)
    ELSE IF reply.type # "INTEGER" THEN ToSizeT(-EPROTO)
    ELSE ToSizeT(reply.integer)

GetKeyLengthReturn(r) ==
    HandlerResume(IF r.result < 0 THEN r ELSE Free(r),
                  StrlenResult(r.result, r.kvsReply))

CreateEmptyKeyReturn(r) ==
    HandlerResume(IF r.result >= 0 THEN Free(r) ELSE r, r.result)

DeleteKeyResult(result, reply) ==
    IF result < 0 THEN result
    ELSE IF reply.type # "INTEGER" THEN -EPROTO
    ELSE IF reply.integer = 0 THEN -ENOENT
    ELSE 0

\* the return at line 205 (no such key) comes before the freeReplyObject
DeleteKeyReturn(r) ==
    HandlerResume(IF r.result < 0
                     \/ (r.kvsReply.type = "INTEGER" /\ r.kvsReply.integer = 0)
                  THEN r ELSE Free(r),
                  DeleteKeyResult(r.result, r.kvsReply))

\* faulty variant: the failed rename is reported as not-found
RenameKeyReturnNotFound(r) ==
    IF r.result < 0 THEN HandlerResume(r, -ENOENT) ELSE HandlerResume(Free(r), 0)

RenameKeyReturn(r) ==
    IF r.result < 0 THEN HandlerResume(r, r.result) ELSE HandlerResume(Free(r), 0)

IntegerReplyResult(result, reply, ok) ==
    IF result < 0 THEN result
    ELSE IF reply.type # "INTEGER" THEN -EPROTO
    ELSE ok

AppendZeroedBytesReturn(r) ==
    HandlerResume(IF r.result < 0 THEN r ELSE Free(r),
                  IntegerReplyResult(r.result, r.kvsReply, 0))

\* faulty variant: the whole reply of GETRANGE 0 newsize is stored
PrefixArgumentWholeReply(str, newsize, over) == str

\* the "%b" argument of kvs_TruncateKey's SET: newsize bytes starting at
\* reply1->str.  The reply holds len bytes and a terminating null; what lies
\* behind them is not the program's (over is what the read finds there).
PrefixArgument(str, newsize, over) ==
    IF Len(str) >= newsize THEN SubSeq(str, 1, newsize)
    ELSE str \o <<0>> \o over

OverRead(r) ==
    IF r.kfn = "TruncateKey.getrange" /\ r.result >= 0
          /\ r.kvsReply.type = "STRING" /\ Len(r.kvsReply.str) < r.ksz
    THEN r.ksz - Len(r.kvsReply.str) - 1
    ELSE 0

\* faulty variant: the SET stores the empty value, not the prefix that was read
TruncateKeyAfterGetrangeStoresEmpty(r, over) ==
    IF r.result < 0 THEN HandlerResume(r, r.result)
    ELSE IF r.kvsReply.type # "STRING" THEN HandlerResume(Free(r), -EPROTO)
    ELSE StartExec([r EXCEPT !.reply1 = r.kvsReply], "TruncateKey.set",
                   Cmd("SET", r.kname, <<>>, 0, 0, <<>>))

TruncateKeyAfterGetrange(r, over) ==
    IF r.result < 0 THEN HandlerResume(r, r.result)
    ELSE IF r.kvsReply.type # "STRING" THEN HandlerResume(Free(r), -EPROTO)
    ELSE StartExec([r EXCEPT !.reply1 = r.kvsReply], "TruncateKey.set",
                   Cmd("SET", r.kname, <<>>, 0, 0,
                       PrefixArgument(r.kvsReply.str, r.ksz, over)))

TruncateKeyReturn(r) ==
    LET r1 == IF r.reply1.type # "NULL" THEN Free(r) ELSE r
        r2 == IF r.result >= 0 THEN Free(r1) ELSE r1
    IN  HandlerResume(r2, r.result)

\* length = reply->len; memcpy(buf, reply->str, length); return length
ReadPartialValueReturn(r) ==
    IF r.result < 0 THEN HandlerResume(r, r.result)
    ELSE IF r.kvsReply.type # "STRING" THEN HandlerResume(Free(r), -EPROTO)
    ELSE HandlerResume([Free(r) EXCEPT !.rbuf = r.kvsReply.str], Len(r.kvsReply.str))

\* faulty variant: the total length redis reports is returned
WritePartialValueReturnsLength(r) ==
    HandlerResume(IF r.result < 0 THEN r ELSE Free(r),
                  IntegerReplyResult(r.result, r.kvsReply, r.kvsReply.integer))

\* "return size": the number of bytes in buf
WritePartialValueReturn(r) ==
    HandlerResume(IF r.result < 0 THEN r ELSE Free(r),
                  IntegerReplyResult(r.result, r.kvsReply, Len(r.buf)))

\* filler(buf, name, NULL, 0) of the dispatcher: the entry is added and 0
\* returned, or the buffer is full, nothing is added and 1 returned
filler(delivered, name, cap) ==
    IF Len(delivered) < cap
    THEN [buf |-> Append(delivered, name), rc |-> 0]
    ELSE [buf |-> delivered, rc |-> 1]

\* faulty variant: the loop goes on after filler reported a full buffer
RECURSIVE ReadDirectoryLoopIgnoresFull(_, _)
ReadDirectoryLoopIgnoresFull(r, j) ==
    IF j > Len(r.kvsReply.element) THEN HandlerResume(Free(r), 0)
    ELSE ReadDirectoryLoopIgnoresFull(
            [r EXCEPT !.delivered = filler(r.delivered, r.kvsReply.element[j],
                                           r.cap).buf], j + 1)

\* lines 341-347, 353-354: for (j = 0; j < reply->elements; j++), from
\* element j on (counted from 1 here)
RECURSIVE ReadDirectoryLoop(_, _)
ReadDirectoryLoop(r, j) ==
    IF j > Len(r.kvsReply.element) THEN HandlerResume(Free(r), 0)
    ELSE LET f == filler(r.delivered, r.kvsReply.element[j], r.cap)
         IN  IF f.rc # 0 THEN HandlerResume(Free(r), -ENOMEM)
             ELSE ReadDirectoryLoop([r EXCEPT !.delivered = f.buf], j + 1)

\* faulty variant: the loop starts at the second element
ReadDirectoryReturnSkipsFirst(r) ==
    IF r.result < 0 THEN HandlerResume(r, r.result)
    ELSE IF r.kvsReply.type = "ARRAY" THEN ReadDirectoryLoop(r, 2)
    ELSE HandlerResume(r, -EPROTO)

\* the return at line 351 (no array) comes without a freeReplyObject
ReadDirectoryReturn(r) ==
    IF r.result < 0 THEN HandlerResume(r, r.result)
    ELSE IF r.kvsReply.type = "ARRAY" THEN ReadDirectoryLoop(r, 1)
    ELSE HandlerResume(r, -EPROTO)

KvsResume(r, over) ==
    CASE r.kfn = "KeyExists" -> KeyExistsReturn(r)
      [] r.kfn = "GetKeyLength.exists" -> GetKeyLengthAfterExists(r)
      [] r.kfn = "GetKeyLength.strlen" -> GetKeyLengthReturn(r)
      [] r.kfn = "CreateEmptyKey" -> CreateEmptyKeyReturn(r)
      [] r.kfn = "DeleteKey" -> DeleteKeyReturn(r)
      [] r.kfn = "RenameKey" -> RenameKeyReturn(r)
      [] r.kfn = "AppendZeroedBytes" -> AppendZeroedBytesReturn(r)
      [] r.kfn = "TruncateKey.getrange" -> TruncateKeyAfterGetrange(r, over)
      [] r.kfn = "TruncateKey.set" -> TruncateKeyReturn(r)
      [] r.kfn = "ReadPartialValue" -> ReadPartialValueReturn(r)
      [] r.kfn = "WritePartialValue" -> WritePartialValueReturn(r)
      [] r.kfn = "ReadDirectory" -> ReadDirectoryReturn(r)

(***************************************************************************)
(* Inputs of the callbacks.  The kernel resolves a path before it calls    *)
(* mknod, rename or truncate, so these are never called on the root.  A    *)
(* write carries k copies of one byte.                                     *)
(***************************************************************************)
FilePaths == Paths \ {<<"/">>}
Perms == {0, S_IWUSR, S_IRUSR, S_IRUSR + S_IWUSR}
Modes == {S_IFREG + p : p \in Perms} \cup {S_IFDIR + S_IRUSR + S_IWUSR, S_IRUSR}
OpenFlags ==
    {O_RDONLY, O_RDONLY + O_CREAT, O_RDONLY + O_TRUNC, O_RDONLY + O_CREAT + O_TRUNC,
     O_WRONLY + O_CREAT}
WriteBufs(n) == {[i \in 1..k |-> b] : k \in 0..n, b \in Bytes}

DirCaps == 0..Cardinality(Names)     \* entries the directory buffer can take

Ready(t) == proc = "serving" /\ th[t].fpc = "idle"

Invoke(t, op, path, path2, mode, size, offset, buf) ==
    [IdleThread EXCEPT !.op = op, !.path = path, !.path2 = path2, !.mode = mode,
                       !.size = size, !.offset = offset, !.buf = buf,
                       !.db0 = store, !.fpc = "entry",
                       !.second = \/ /\ op = "mknod" /\ ModeHasExcl(mode)
                                     /\ th[t].lastExcl = FILE_NAME(path)
                                  \/ /\ op = "open" /\ BitAnd(mode, O_CREAT) = 0
                                     /\ th[t].prevOp = "open.creat"
                                     /\ th[t].prevName = FILE_NAME(path)
                                  \/ /\ op = "unlink"
                                     /\ th[t].prevOp = "unlink"
                                     /\ th[t].prevName = FILE_NAME(path)
                                  \/ /\ op = "mknod" /\ ~ModeHasExcl(mode)
                                     /\ th[t].prevOp = "create"
                                     /\ th[t].prevName = FILE_NAME(path)
                                  \/ /\ op = "read"
                                     /\ th[t].prevOp = "open.wronly"
                                     /\ th[t].prevName = FILE_NAME(path)
                                  \/ /\ op = "write"
                                     /\ th[t].prevOp = "open.rdonly"
                                     /\ th[t].prevName = FILE_NAME(path)
                                  \/ /\ op = "fgetattr"
                                     /\ th[t].prevOp = "getattr"
                                     /\ th[t].prevName = FILE_NAME(path),
                       !.prevRet = IF op = "fgetattr" /\ th[t].prevOp = "getattr"
                                      /\ th[t].prevName = FILE_NAME(path)
                                   THEN th[t].prevRet ELSE 0,
                       !.prevStat = IF op = "fgetattr" /\ th[t].prevOp = "getattr"
                                       /\ th[t].prevName = FILE_NAME(path)
                                    THEN th[t].prevStat ELSE EmptyStat]

Run(t, r) ==
    /\ th' = [th EXCEPT ![t] = r]
    /\ UNCHANGED <<store, redisCtx, proc, exitCode>>

\* exit(code): the process and the locals of all its threads are gone
Exit(code, ctx) ==
    /\ proc' = "exited"
    /\ exitCode' = code
    /\ redisCtx' = ctx
    /\ th' = [t \in Threads |-> IdleThread]
    /\ UNCHANGED store

(***************************************************************************)
(* main: kvs_init connects before fuse_main serves, or the process exits.  *)
(***************************************************************************)
\* faulty variant: fuse_main is entered whether or not kvs_init connected
MainServesUnconnected ==
    /\ proc = "start"
    /\ redisCtx' \in {"live", "null"}
    /\ proc' = "serving"
    /\ UNCHANGED <<store, exitCode, th>>

Main ==
    /\ proc = "start"
    /\ \/ /\ redisCtx' = "live"
          /\ proc' = "serving"
          /\ UNCHANGED <<store, exitCode, th>>
       \/ Exit(-1, "null")
       \/ Exit(-2, "freed")

(***************************************************************************)
(* The callbacks, each up to its first store command or its return.        *)
(***************************************************************************)
GetattrEntry(r) ==
    IF IsRoot(r.path)
    THEN GetattrFill([r EXCEPT !.statbuf.st_mode = S_IRWXUGO + S_IFDIR], 0)
    ELSE kvs_KeyExists([r EXCEPT !.fpc = "getattr.exists",
                                 !.statbuf.st_mode = S_IRWXUGO],
                       FILE_NAME(r.path))

f4r_getattr(t) ==
    /\ Ready(t)
    /\ \E path \in Paths :
          Run(t, GetattrEntry(Invoke(t, "getattr", path, <<>>, 0, 0, 0, <<>>)))

MknodEntry(r) ==
    IF ~S_ISREG(r.mode) THEN Done(r, -EINVAL)
    ELSE IF ModeHasExcl(r.mode)
         THEN kvs_KeyExists([r EXCEPT !.fpc = "mknod.exists"], FILE_NAME(r.path))
         ELSE kvs_CreateEmptyKey([r EXCEPT !.fpc = "mknod.create"], FILE_NAME(r.path))

f4r_mknod(t) ==
    /\ Ready(t)
    /\ \E path \in FilePaths, mode \in Modes :
          Run(t, MknodEntry(Invoke(t, "mknod", path, <<>>, mode, 0, 0, <<>>)))

UnlinkEntry(r) ==
    IF IsRoot(r.path) THEN Done(r, -EISDIR)
    ELSE kvs_DeleteKey([r EXCEPT !.fpc = "unlink.delete"], FILE_NAME(r.path))

f4r_unlink(t) ==
    /\ Ready(t)
    /\ \E path \in Paths :
          Run(t, UnlinkEntry(Invoke(t, "unlink", path, <<>>, 0, 0, 0, <<>>)))

RenameEntry(r) ==
    kvs_RenameKey([r EXCEPT !.fpc = "rename.rename"],
                  FILE_NAME(r.path), FILE_NAME(r.path2))

f4r_rename(t) ==
    /\ Ready(t)
    /\ \E path \in FilePaths, newpath \in FilePaths :
          Run(t, RenameEntry(Invoke(t, "rename", path, newpath, 0, 0, 0, <<>>)))

TruncateEntry(r) ==
    kvs_GetKeyLength([r EXCEPT !.fpc = "truncate.length"], FILE_NAME(r.path))

f4r_truncate(t) ==
    /\ Ready(t)
    /\ \E path \in FilePaths, newsize \in 0..MaxLen :
          Run(t, TruncateEntry(Invoke(t, "truncate", path, <<>>, 0, newsize, 0, <<>>)))

OpenEntry(r) ==
    IF IsRoot(r.path) THEN Done(r, -EISDIR)
    ELSE kvs_KeyExists([r EXCEPT !.fpc = "open.exists"], FILE_NAME(r.path))

f4r_open(t) ==
    /\ Ready(t)
    /\ \E path \in Paths, flags \in OpenFlags :
          Run(t, OpenEntry(Invoke(t, "open", path, <<>>, flags, 0, 0, <<>>)))

\* faulty variant: a read after a write-only open is refused
ReadEntryChecksMode(r) ==
    IF r.second THEN Done(r, -EBADF)
    ELSE IF IsRoot(r.path) THEN Done(r, -EISDIR)
    ELSE kvs_ReadPartialValue([r EXCEPT !.fpc = "read.read"],
                              FILE_NAME(r.path), r.size, r.offset)

ReadEntry(r) ==
    IF IsRoot(r.path) THEN Done(r, -EISDIR)
    ELSE kvs_ReadPartialValue([r EXCEPT !.fpc = "read.read"],
                              FILE_NAME(r.path), r.size, r.offset)

f4r_read(t) ==
    /\ Ready(t)
    /\ \E path \in Paths, size \in 0..MaxLen, offset \in 0..MaxLen :
          Run(t, ReadEntry(Invoke(t, "read", path, <<>>, 0, size, offset, <<>>)))

\* faulty variant: a write to a file that does not exist is refused
WriteEntryChecksExistence(r) ==
    IF IsRoot(r.path) THEN Done(r, -EISDIR)
    ELSE IF FILE_NAME(r.path) \notin DOMAIN r.db0 THEN Done(r, -ENOENT)
    ELSE kvs_WritePartialValue([r EXCEPT !.fpc = "write.write"],
                               FILE_NAME(r.path), r.buf, r.offset)

WriteEntry(r) ==
    IF IsRoot(r.path) THEN Done(r, -EISDIR)
    ELSE kvs_WritePartialValue([r EXCEPT !.fpc = "write.write"],
                               FILE_NAME(r.path), r.buf, r.offset)

f4r_write(t) ==
    /\ Ready(t)
    /\ \E path \in Paths, offset \in 0..MaxLen :
          \E buf \in WriteBufs(MaxLen - offset) :
             Run(t, WriteEntry(Invoke(t, "write", path, <<>>, 0, Len(buf), offset, buf)))

\* the stubs: logged, nothing else
f4r_flush(t) ==
    /\ Ready(t)
    /\ \E path \in Paths, flags \in OpenFlags :
          Run(t, Done(Invoke(t, "flush", path, <<>>, flags, 0, 0, <<>>), 0))

f4r_release(t) ==
    /\ Ready(t)
    /\ \E path \in Paths, flags \in OpenFlags :
          Run(t, Done(Invoke(t, "release", path, <<>>, flags, 0, 0, <<>>), 0))

OpendirEntry(r) == IF ~IsRoot(r.path) THEN Done(r, -ENOTDIR) ELSE Done(r, 0)

f4r_opendir(t) ==
    /\ Ready(t)
    /\ \E path \in Paths, flags \in OpenFlags :
          Run(t, OpendirEntry(Invoke(t, "opendir", path, <<>>, flags, 0, 0, <<>>)))

\* faulty variant: the path is not looked at
ReaddirEntryAnyPath(r) == kvs_ReadDirectory([r EXCEPT !.fpc = "readdir.read"])

ReaddirEntry(r) ==
    IF ~IsRoot(r.path) THEN Done(r, -ENOTDIR)
    ELSE kvs_ReadDirectory([r EXCEPT !.fpc = "readdir.read"])

f4r_readdir(t) ==
    /\ Ready(t)
    /\ \E path \in Paths, cap \in DirCaps :
          Run(t, ReaddirEntry([Invoke(t, "readdir", path, <<>>, 0, 0, 0, <<>>)
                                 EXCEPT !.cap = cap]))

f4r_releasedir(t) ==
    /\ Ready(t)
    /\ \E path \in Paths, flags \in OpenFlags :
          Run(t, Done(Invoke(t, "releasedir", path, <<>>, flags, 0, 0, <<>>), 0))

\* the operations that are not supported
f4r_readlink(t) ==
    /\ Ready(t)
    /\ \E path \in Paths :
          Run(t, Done(Invoke(t, "readlink", path, <<>>, 0, 0, 0, <<>>), -ENOSYS))

f4r_mkdir(t) ==
    /\ Ready(t)
    /\ \E path \in Paths :
          Run(t, Done(Invoke(t, "mkdir", path, <<>>, 0, 0, 0, <<>>), -ENOSYS))

f4r_rmdir(t) ==
    /\ Ready(t)
    /\ \E path \in Paths :
          Run(t, Done(Invoke(t, "rmdir", path, <<>>, 0, 0, 0, <<>>), -ENOSYS))

f4r_symlink(t) ==
    /\ Ready(t)
    /\ \E path \in Paths :
          Run(t, Done(Invoke(t, "symlink", path, <<>>, 0, 0, 0, <<>>), -ENOSYS))

f4r_link(t) ==
    /\ Ready(t)
    /\ \E path \in Paths :
          Run(t, Done(Invoke(t, "link", path, <<>>, 0, 0, 0, <<>>), -ENOSYS))

\* faulty variant: the stub reports success
f4r_chmodSucceeds(t) ==
    /\ Ready(t)
    /\ \E path \in Paths :
          Run(t, Done(Invoke(t, "chmod", path, <<>>, 0, 0, 0, <<>>), 0))

f4r_chmod(t) ==
    /\ Ready(t)
    /\ \E path \in Paths :
          Run(t, Done(Invoke(t, "chmod", path, <<>>, 0, 0, 0, <<>>), -ENOSYS))

f4r_chown(t) ==
    /\ Ready(t)
    /\ \E path \in Paths :
          Run(t, Done(Invoke(t, "chown", path, <<>>, 0, 0, 0, <<>>), -ENOSYS))

f4r_utime(t) ==
    /\ Ready(t)
    /\ \E path \in Paths :
          Run(t, Done(Invoke(t, "utime", path, <<>>, 0, 0, 0, <<>>), -ENOSYS))

f4r_statfs(t) ==
    /\ Ready(t)
    /\ \E path \in Paths :
          Run(t, Done(Invoke(t, "statfs", path, <<>>, 0, 0, 0, <<>>), -ENOSYS))

f4r_setxattr(t) ==
    /\ Ready(t)
    /\ \E path \in Paths :
          Run(t, Done(Invoke(t, "setxattr", path, <<>>, 0, 0, 0, <<>>), -ENOSYS))

f4r_getxattr(t) ==
    /\ Ready(t)
    /\ \E path \in Paths :
          Run(t, Done(Invoke(t, "getxattr", path, <<>>, 0, 0, 0, <<>>), -ENOSYS))

f4r_listxattr(t) ==
    /\ Ready(t)
    /\ \E path \in Paths :
          Run(t, Done(Invoke(t, "listxattr", path, <<>>, 0, 0, 0, <<>>), -ENOSYS))

f4r_removexattr(t) ==
    /\ Ready(t)
    /\ \E path \in Paths :
          Run(t, Done(Invoke(t, "removexattr", path, <<>>, 0, 0, 0, <<>>), -ENOSYS))

\* f4r_ftruncate and f4r_fgetattr hand FILE_NAME(path) to f4r_truncate and
\* f4r_getattr as their path; path2 keeps the path the callback was given
f4r_ftruncate(t) ==
    /\ Ready(t)
    /\ \E path \in FilePaths, newsize \in 0..MaxLen :
          Run(t, TruncateEntry(Invoke(t, "ftruncate", FILE_NAME(path), path, 0,
                                      newsize, 0, <<>>)))

f4r_fgetattr(t) ==
    /\ Ready(t)
    /\ \E path \in Paths :
          Run(t, GetattrEntry(Invoke(t, "fgetattr", FILE_NAME(path), path, 0, 0, 0,
                                     <<>>)))

\* f4r_destroy: the dispatcher's loop has ended, kvs_Cleanup releases the
\* connection, main returns
f4r_destroy ==
    /\ proc = "serving"
    /\ \A t \in Threads : th[t].fpc = "idle"
    /\ Exit(0, "freed")

\* what the next request may follow: a successful open with O_CREAT, a
\* successful unlink, a successful mknod without the exclusive bit
PrevOp(r) ==
    IF r.ret # 0 THEN ""
    ELSE IF r.op = "open" /\ BitAnd(r.mode, O_CREAT) # 0 THEN "open.creat"
    ELSE IF r.op = "unlink" THEN "unlink"
    ELSE IF r.op = "mknod" /\ ~ModeHasExcl(r.mode) THEN "create"
    ELSE ""

\* a getattr, whatever it returned, and a successful open by its access mode
PrevCall(r) ==
    IF r.op = "getattr" THEN "getattr"
    ELSE IF r.ret = 0 /\ r.op = "open" /\ BitAnd(r.mode, O_ACCMODE) = O_WRONLY
         THEN "open.wronly"
    ELSE IF r.ret = 0 /\ r.op = "open" /\ BitAnd(r.mode, O_ACCMODE) = O_RDONLY
         THEN "open.rdonly"
    ELSE PrevOp(r)

\* the dispatcher hands the callback's result to the kernel; the thread is free
\* for the next request
FuseReply(t) ==
    /\ proc = "serving"
    /\ th[t].fpc = "done"
    /\ Run(t, [IdleThread EXCEPT
                 !.lastExcl =
                    IF th[t].op = "mknod" /\ ModeHasExcl(th[t].mode) /\ th[t].ret = 0
                    THEN FILE_NAME(th[t].path) ELSE <<>>,
                 !.prevOp = PrevOp(th[t]),
                 !.prevName = IF PrevOp(th[t]) = "" THEN <<>>
                              ELSE FILE_NAME(th[t].path)])

\* the same step, with more of the returned callback kept for the properties
\* about pairs of calls: the access mode of an open, the result of a getattr
FuseReplyRecorded(t) ==
    /\ proc = "serving"
    /\ th[t].fpc = "done"
    /\ Run(t, [IdleThread EXCEPT
                 !.lastExcl =
                    IF th[t].op = "mknod" /\ ModeHasExcl(th[t].mode) /\ th[t].ret = 0
                    THEN FILE_NAME(th[t].path) ELSE <<>>,
                 !.prevOp = PrevCall(th[t]),
                 !.prevName = IF PrevCall(th[t]) = "" THEN <<>>
                              ELSE FILE_NAME(th[t].path),
                 !.prevRet = IF PrevCall(th[t]) = "getattr" THEN th[t].ret ELSE 0,
                 !.prevStat = IF PrevCall(th[t]) = "getattr" THEN th[t].statbuf
                              ELSE EmptyStat])

(***************************************************************************)
(* kvs_RedisCommand, one step per pass through its loop.                   *)
(***************************************************************************)
\* line 117: redisvCommand sends the command; the server answers, or the
\* transport fails before or after the server applied the command
RedisvCommandAnswered(t) ==
    /\ proc = "serving"
    /\ th[t].ex = "issue"
    /\ \E x \in RedisOutcomes(store, th[t].cmd) :
          /\ store' = x.db
          /\ th' = [th EXCEPT ![t].kvsReply = x.reply, ![t].ex = "after",
                              ![t].issued = @ + 1, ![t].replies = @ + 1]
    /\ UNCHANGED <<redisCtx, proc, exitCode>>

RedisvCommandLost(t) ==
    /\ proc = "serving"
    /\ th[t].ex = "issue"
    /\ \E x \in RedisOutcomes(store, th[t].cmd) :
          /\ store' \in {store, x.db}
          /\ th' = [th EXCEPT ![t].kvsReply = NoReply, ![t].ex = "null",
                              ![t].issued = @ + 1, ![t].nulls = @ + 1]
    /\ UNCHANGED <<redisCtx, proc, exitCode>>

RedisvCommand(t) == RedisvCommandAnswered(t) \/ RedisvCommandLost(t)

\* "while (tries < 2)" after the pass that incremented tries
LoopAgain(tries) == tries < 2

\* lines 120-126: kvsReply == NULL: redisFree, kvs_Reconnect (which exits
\* when it cannot connect), tries++
KvsReconnect(t) ==
    /\ proc = "serving"
    /\ th[t].ex = "null"
    /\ \/ /\ redisCtx' = "live"
          /\ th' = [th EXCEPT ![t].tries = @ + 1, ![t].reconnects = @ + 1,
                              ![t].ex = IF LoopAgain(th[t].tries + 1)
                                        THEN "issue" ELSE "after"]
          /\ UNCHANGED <<store, proc, exitCode>>
       \/ Exit(-3, "null")
       \/ Exit(-4, "freed")

\* faulty variant: the check after the loop is missing
ReplyIsNullUnchecked(reply) == FALSE

\* line 131: "if (kvsReply == NULL)" after the loop
ReplyIsNull(reply) == reply.type = "NULL"

\* faulty variant: the error reply is neither released nor taken from the caller
ReplyOutcomeKeepsReply(r) ==
    [r EXCEPT !.ex = "ret", !.result = IF r.kvsReply.type = "ERROR" THEN -EIO ELSE 0]

\* faulty variant: an error reply is handed to the caller as a success
ReplyOutcomeErrorAsSuccess(r) == [r EXCEPT !.ex = "ret", !.result = 0]

\* lines 137-145: *resultReply = kvsReply; an error reply is released, the
\* caller gets NULL and -EIO; any other reply is the caller's, with 0
ReplyOutcome(r) ==
    IF r.kvsReply.type = "ERROR"
    THEN [Free(r) EXCEPT !.ex = "ret", !.result = -EIO, !.kvsReply = NoReply]
    ELSE [r EXCEPT !.ex = "ret", !.result = 0]

\* lines 131-146: after the loop
KvsRedisCommandReturn(t) ==
    /\ proc = "serving"
    /\ th[t].ex = "after"
    /\ IF ReplyIsNull(th[t].kvsReply)
       THEN Exit(-5, redisCtx)
       ELSE Run(t, ReplyOutcome(th[t]))

\* the kvs_ primitive and the callback go on, up to the next command or the
\* callback's return
KvsReturn(t) ==
    /\ proc = "serving"
    /\ th[t].ex = "ret"
    /\ \E over \in BytesOfLen(OverRead(th[t])) : Run(t, KvsResume(th[t], over))

(***************************************************************************)
(* Specification: single-threaded dispatch.                                *)
(***************************************************************************)
Init ==
    /\ store = <<>>
    /\ redisCtx = "null"
    /\ proc = "start"
    /\ exitCode = 0
    /\ th = [t \in Threads |-> IdleThread]

Step(t) ==
    \/ f4r_getattr(t)
    \/ f4r_mknod(t)
    \/ f4r_unlink(t)
    \/ f4r_rename(t)
    \/ f4r_truncate(t)
    \/ f4r_open(t)
    \/ f4r_read(t)
    \/ f4r_write(t)
    \/ f4r_flush(t)
    \/ f4r_release(t)
    \/ f4r_opendir(t)
    \/ f4r_readdir(t)
    \/ f4r_releasedir(t)
    \/ f4r_readlink(t)
    \/ f4r_mkdir(t)
    \/ f4r_rmdir(t)
    \/ f4r_symlink(t)
    \/ f4r_link(t)
    \/ f4r_chmod(t)
    \/ f4r_chown(t)
    \/ f4r_utime(t)
    \/ f4r_statfs(t)
    \/ f4r_setxattr(t)
    \/ f4r_getxattr(t)
    \/ f4r_listxattr(t)
    \/ f4r_removexattr(t)
    \/ FuseReply(t)
    \/ RedisvCommand(t)
    \/ KvsReconnect(t)
    \/ KvsRedisCommandReturn(t)
    \/ KvsReturn(t)

Next == Main \/ f4r_destroy \/ \E t \in SeqThreads : Step(t)

Spec == Init /\ [][Next]_vars

(***************************************************************************)
(* Specification: multi-threaded dispatch.  The process serves; one        *)
(* dispatcher thread runs a truncate and the other a write on the same     *)
(* file, whatever value the file has; their store commands interleave in   *)
(* any order, each answered by the store.                                  *)
(***************************************************************************)
SharedFile == <<"/", "a">>

\* the file is absent or has any value
SharedStores == {<<>>} \cup {Put(<<>>, FILE_NAME(SharedFile), v) : v \in BytesUpTo(MaxLen)}

InitServing ==
    /\ store \in SharedStores
    /\ redisCtx = "live"
    /\ proc = "serving"
    /\ exitCode = 0
    /\ th = [t \in Threads |-> IdleThread]

f4r_truncateOn(t, path) ==
    /\ Ready(t)
    /\ \E newsize \in 0..MaxLen :
          Run(t, TruncateEntry(Invoke(t, "truncate", path, <<>>, 0, newsize, 0, <<>>)))

f4r_writeOn(t, path) ==
    /\ Ready(t)
    /\ \E offset \in 0..MaxLen :
          \E buf \in WriteBufs(MaxLen - offset) :
             Run(t, WriteEntry(Invoke(t, "write", path, <<>>, 0, Len(buf), offset, buf)))

StepAnswered(t) ==
    \/ RedisvCommandAnswered(t)
    \/ KvsRedisCommandReturn(t)
    \/ KvsReturn(t)

NextTruncateWrite ==
    \/ f4r_truncateOn("t1", SharedFile)
    \/ f4r_writeOn("t2", SharedFile)
    \/ \E t \in Threads : StepAnswered(t)

SpecTruncateWrite == InitServing /\ [][NextTruncateWrite]_vars

(***************************************************************************)
(* Specification: multi-threaded dispatch of two mknod on the same file.   *)
(***************************************************************************)
f4r_mknodOn(t, path) ==
    /\ Ready(t)
    /\ \E mode \in Modes :
          Run(t, MknodEntry(Invoke(t, "mknod", path, <<>>, mode, 0, 0, <<>>)))

NextTwoCreates ==
    \E t \in Threads : f4r_mknodOn(t, SharedFile) \/ StepAnswered(t)

SpecTwoCreates == InitServing /\ [][NextTwoCreates]_vars

(***************************************************************************)
(* Specification: multi-threaded dispatch of an open and a write on the    *)
(* same file.                                                              *)
(***************************************************************************)
f4r_openOn(t, path) ==
    /\ Ready(t)
    /\ \E flags \in OpenFlags :
          Run(t, OpenEntry(Invoke(t, "open", path, <<>>, flags, 0, 0, <<>>)))

NextOpenWrite ==
    \/ f4r_openOn("t1", SharedFile)
    \/ f4r_writeOn("t2", SharedFile)
    \/ \E t \in Threads : StepAnswered(t)

SpecOpenWrite == InitServing /\ [][NextOpenWrite]_vars

(***************************************************************************)
(* Specification: multi-threaded dispatch of a getattr and an unlink on    *)
(* the same file.                                                          *)
(***************************************************************************)
f4r_getattrOn(t, path) ==
    /\ Ready(t)
    /\ Run(t, GetattrEntry(Invoke(t, "getattr", path, <<>>, 0, 0, 0, <<>>)))

f4r_unlinkOn(t, path) ==
    /\ Ready(t)
    /\ Run(t, UnlinkEntry(Invoke(t, "unlink", path, <<>>, 0, 0, 0, <<>>)))

NextGetattrUnlink ==
    \/ f4r_getattrOn("t1", SharedFile)
    \/ f4r_unlinkOn("t2", SharedFile)
    \/ \E t \in Threads : StepAnswered(t)

SpecGetattrUnlink == InitServing /\ [][NextGetattrUnlink]_vars

(***************************************************************************)
(* Specification: the attributes of a file of any length.  getattr goes on *)
(* from the return of kvs_GetKeyLength, which reports a length up to       *)
(* MaxSize.                                                                *)
(***************************************************************************)
GetattrLengthKnown(t) ==
    /\ Ready(t)
    /\ \E path \in FilePaths, fsize \in 0..MaxSize :
          Run(t, GetattrAfterLength(
                    [Invoke(t, "getattr", path, <<>>, 0, 0, 0, <<>>)
                       EXCEPT !.fpc = "getattr.length",
                              !.statbuf.st_mode = S_IRWXUGO + S_IFREG],
                    fsize))

NextFileSizes == \E t \in SeqThreads : GetattrLengthKnown(t) \/ FuseReply(t)

SpecFileSizes == InitServing /\ [][NextFileSizes]_vars

(***************************************************************************)
(* Specification: multi-threaded dispatch with the executor's use of the   *)
(* global handle step by step.  Two dispatcher threads run getattr on one  *)
(* file.  redisvCommand sends on redisCtx and then waits for the reply;    *)
(* after a NULL reply the thread reads redisCtx->err, calls redisFree and  *)
(* then kvs_Reconnect, which assigns redisCtx.  Nothing orders these steps *)
(* between the threads.  ex is "sent" while the command is in flight,      *)
(* "sent.dangling" when it was sent on a freed handle, "reconnect" between *)
(* redisFree and kvs_Reconnect.                                            *)
(***************************************************************************)
InFlight(t) == th[t].ex \in {"sent", "sent.dangling"}

\* a use of freed memory or a race on the handle's buffers may end the process
Crash ==
    /\ proc' = "crashed"
    /\ th' = [t \in Threads |-> IdleThread]
    /\ UNCHANGED <<store, redisCtx, exitCode>>

\* faulty variant: the handle is taken by one thread at a time, and only live
RedisvCommandSendExclusive(t) ==
    /\ proc = "serving"
    /\ th[t].ex = "issue"
    /\ redisCtx = "live"
    /\ \A o \in Threads \ {t} : th[o].ex \notin {"sent", "sent.dangling", "null", "reconnect"}
    /\ th' = [th EXCEPT ![t].ex = "sent", ![t].issued = @ + 1]
    /\ UNCHANGED <<store, redisCtx, proc, exitCode>>

\* line 117, first half: redisvCommand(redisCtx, ...) writes the command to
\* the handle redisCtx points to, whatever state it is in
RedisvCommandSend(t) ==
    /\ proc = "serving"
    /\ th[t].ex = "issue"
    /\ th' = [th EXCEPT ![t].ex = IF redisCtx = "live" THEN "sent" ELSE "sent.dangling",
                        ![t].issued = @ + 1,
                        ![t].overlapped = @ \/ \E o \in Threads \ {t} : InFlight(o)]
    /\ UNCHANGED <<store, redisCtx, proc, exitCode>>

\* line 117, second half: redisvCommand returns.  On a live handle used by
\* this thread alone it is the reply or NULL; with another command in flight
\* the reply read may be the other command's; on a freed handle the read is
\* undefined: a reply, NULL, or the end of the process
RedisvCommandReceive(t) ==
    /\ proc = "serving"
    /\ InFlight(t)
    /\ \/ \E o \in Threads :
             /\ o = t \/ InFlight(o)
             /\ \E x \in RedisOutcomes(store, th[o].cmd) :
                   /\ store' = x.db
                   /\ th' = [th EXCEPT ![t].kvsReply = x.reply, ![t].ex = "after",
                                       ![t].replies = @ + 1]
             /\ UNCHANGED <<redisCtx, proc, exitCode>>
       \/ /\ th' = [th EXCEPT ![t].kvsReply = NoReply, ![t].ex = "null",
                              ![t].nulls = @ + 1]
          /\ UNCHANGED <<store, redisCtx, proc, exitCode>>
       \/ /\ th[t].ex = "sent.dangling" \/ redisCtx # "live"
          /\ Crash

\* lines 120-124: log_msg reads redisCtx->err and redisCtx->errstr, then
\* redisFree(redisCtx); on a handle another thread has freed both are
\* undefined and may end the process
RedisFree(t) ==
    /\ proc = "serving"
    /\ th[t].ex = "null"
    /\ \/ /\ redisCtx' = "freed"
          /\ th' = [th EXCEPT ![t].ex = "reconnect"]
          /\ UNCHANGED <<store, proc, exitCode>>
       \/ /\ redisCtx # "live"
          /\ Crash

\* lines 125-126 and kvs_Reconnect (85-100): redisCtx is assigned the new
\* connection, or the process exits
KvsReconnectAssign(t) ==
    /\ proc = "serving"
    /\ th[t].ex = "reconnect"
    /\ \/ /\ redisCtx' = "live"
          /\ th' = [th EXCEPT ![t].tries = @ + 1, ![t].reconnects = @ + 1,
                              ![t].ex = IF LoopAgain(th[t].tries + 1)
                                        THEN "issue" ELSE "after"]
          /\ UNCHANGED <<store, proc, exitCode>>
       \/ Exit(-3, "null")
       \/ Exit(-4, "freed")

StepSharedHandle(t) ==
    \/ f4r_getattrOn(t, SharedFile)
    \/ RedisvCommandSend(t)
    \/ RedisvCommandReceive(t)
    \/ RedisFree(t)
    \/ KvsReconnectAssign(t)
    \/ KvsRedisCommandReturn(t)
    \/ KvsReturn(t)

NextSharedHandle == \E t \in Threads : StepSharedHandle(t)

SpecSharedHandle == InitServing /\ [][NextSharedHandle]_vars

(***************************************************************************)
(* Specification: single-threaded dispatch of open, read and write, with   *)
(* the access mode of the returned open recorded.                          *)
(***************************************************************************)
StepAccessModes(t) ==
    \/ f4r_open(t)
    \/ f4r_read(t)
    \/ f4r_write(t)
    \/ FuseReplyRecorded(t)
    \/ RedisvCommand(t)
    \/ KvsReconnect(t)
    \/ KvsRedisCommandReturn(t)
    \/ KvsReturn(t)

NextAccessModes == Main \/ \E t \in SeqThreads : StepAccessModes(t)

SpecAccessModes == Init /\ [][NextAccessModes]_vars

(***************************************************************************)
(* Specification: single-threaded dispatch of the path-based and the       *)
(* handle-based attribute and resize callbacks, with the returned getattr  *)
(* recorded; mknod creates the files.                                      *)
(***************************************************************************)
StepHandleVariants(t) ==
    \/ f4r_mknod(t)
    \/ f4r_getattr(t)
    \/ f4r_fgetattr(t)
    \/ f4r_truncate(t)
    \/ f4r_ftruncate(t)
    \/ FuseReplyRecorded(t)
    \/ RedisvCommand(t)
    \/ KvsReconnect(t)
    \/ KvsRedisCommandReturn(t)
    \/ KvsReturn(t)

NextHandleVariants == Main \/ \E t \in SeqThreads : StepHandleVariants(t)

SpecHandleVariants == Init /\ [][NextHandleVariants]_vars


(***************************************************************************)
(* Properties.                                                             *)
(***************************************************************************)
Returned(t, op) == th[t].op = op /\ th[t].fpc = "done"
KeyOf(t) == FILE_NAME(th[t].path)
OthersUnchanged(t) ==
    \A k \in Names \ {KeyOf(t)} :
       /\ (k \in DOMAIN store) = (k \in DOMAIN th[t].db0)
       /\ k \in DOMAIN store => store[k] = th[t].db0[k]

\* C1: in every call of kvs_RedisCommand the command is issued at most twice
\* and the connection is re-established at most once, also when the retry
\* fails as well.
C1_TwoIssuesOneReconnect ==
    \A t \in Threads : th[t].issued <= 2 /\ th[t].reconnects <= 1

\* C2: a second consecutive transport failure of a command, or a failed
\* reconnect, terminates the process: after the second NULL reply the command
\* is not issued again and the store is not touched, kvs_RedisCommand returns
\* to its caller only with a reply the server sent, and a terminated process
\* takes no step.
C2_SecondFailureTerminates ==
    [][\A t \in Threads :
         /\ th[t].nulls >= 2 =>
               \/ proc' = "exited"
               \/ /\ th'[t].ex \in {"null", "after"}
                  /\ th'[t].kvsReply = NoReply
                  /\ th'[t].issued = th[t].issued
                  /\ store' = store
         /\ (th[t].ex = "null" /\ redisCtx' # "live") => proc' = "exited"
         /\ (th[t].ex # "ret" /\ th'[t].ex = "ret") =>
               th[t].kvsReply.type # "NULL" /\ th[t].nulls < 2
         /\ proc = "exited" => UNCHANGED vars]_vars

C2_Witness == proc = "exited" /\ exitCode = -5

\* C3: on an error reply kvs_RedisCommand releases the reply, hands its caller
\* a NULL reply and returns -EIO, without reconnecting and without issuing the
\* command again.
C3_ErrorReplyNoRetry ==
    [][\A t \in Threads :
         (th[t].ex = "after" /\ th[t].kvsReply.type = "ERROR" /\ th'[t] # th[t]) =>
            /\ th'[t].ex = "ret"
            /\ th'[t].result = -EIO
            /\ th'[t].kvsReply = NoReply
            /\ th'[t].replies = th[t].replies - 1
            /\ th'[t].issued = th[t].issued
            /\ th'[t].reconnects = th[t].reconnects
            /\ UNCHANGED <<store, redisCtx, proc>>]_vars

C3_Witness ==
    \E t \in Threads :
       th[t].ex = "ret" /\ th[t].result = -EIO /\ th[t].kvsReply = NoReply
          /\ th[t].replies = 0


\* C4: under sequential dispatch getattr of a non-root path returns -ENOENT
\* exactly when the key is absent, and otherwise reports a regular file whose
\* size is the length of the key's value; getattr of "/" reports a directory
\* of size 0.
C4_AttributesMatchStore ==
    \A t \in Threads :
       Returned(t, "getattr") =>
          IF IsRoot(th[t].path)
          THEN /\ th[t].ret = 0
               /\ BitAnd(th[t].statbuf.st_mode, S_IFMT) = S_IFDIR
               /\ th[t].statbuf.st_size = 0
          ELSE /\ (th[t].ret = -ENOENT) = (KeyOf(t) \notin DOMAIN store)
               /\ KeyOf(t) \in DOMAIN store =>
                     /\ th[t].ret = 0
                     /\ S_ISREG(th[t].statbuf.st_mode)
                     /\ th[t].statbuf.st_size = Len(store[KeyOf(t)])

C4_Witness ==
    \E t \in Threads :
       /\ Returned(t, "getattr")
       /\ KeyOf(t) \in DOMAIN store
       /\ Len(store[KeyOf(t)]) >= 2
       /\ th[t].statbuf.st_size = Len(store[KeyOf(t)])

\* C5: an exclusive mknod that succeeded, followed by a second exclusive mknod
\* of the same name with no remove or rename in between, fails with -EEXIST
\* and leaves the store as it was: a successful exclusive mknod leaves the key
\* present, only the DEL of unlink and the RENAME of rename take a key away,
\* and an exclusive mknod of a present key fails with -EEXIST and changes
\* nothing.
C5_SecondExclusiveCreateFails ==
    /\ [](\A t \in Threads :
            (Returned(t, "mknod") /\ S_ISREG(th[t].mode) /\ ModeHasExcl(th[t].mode)) =>
               /\ th[t].ret = 0 => KeyOf(t) \in DOMAIN store
               /\ (KeyOf(t) \in DOMAIN th[t].db0 \/ th[t].second) =>
                     th[t].ret = -EEXIST /\ store = th[t].db0)
    /\ [][\A k \in Names :
            (k \in DOMAIN store /\ k \notin DOMAIN store') =>
               \E t \in Threads :
                  /\ th[t].op \in {"unlink", "rename"}
                  /\ th[t].ex = "issue"
                  /\ th[t].cmd.name \in {"DEL", "RENAME"}
                  /\ th[t].cmd.key = k]_vars

C5_Witness ==
    \E t \in Threads :
       Returned(t, "mknod") /\ th[t].second /\ th[t].ret = -EEXIST
          /\ store = th[t].db0

\* an exclusivity request is a flag of its own: a bit of mode that is neither
\* a file-type bit nor one of the set-id, sticky and permission bits (07777)
ExclusiveRequested(mode) == mode - BitAnd(mode, S_IFMT + 4095) # 0

\* C6: mknod returns -EEXIST exactly when exclusive create was requested and
\* the key is present; a regular-file create that did not request exclusivity
\* succeeds for every permission-bit combination, whether or not the key
\* exists, and leaves the key empty; a mode that is no regular file returns
\* -EINVAL without a store command.
C6_CreateOutcome ==
    \A t \in Threads :
       Returned(t, "mknod") =>
          /\ ~S_ISREG(th[t].mode) => th[t].ret = -EINVAL /\ store = th[t].db0
          /\ S_ISREG(th[t].mode) =>
                /\ (th[t].ret = -EEXIST) =
                      (ExclusiveRequested(th[t].mode) /\ KeyOf(t) \in DOMAIN th[t].db0)
                /\ ~ExclusiveRequested(th[t].mode) =>
                      /\ th[t].ret = 0
                      /\ KeyOf(t) \in DOMAIN store
                      /\ store[KeyOf(t)] = <<>>

\* what a read of size >= 1 bytes at offset of value v returns
ReadOf(v, size, offset) == SubSeq(v, offset + 1, Min(offset + size, Len(v)))

\* C7: a write of k >= 1 bytes at offset o beyond the length L of an existing
\* file returns k; the new length is o + k, bytes [0, L) are unchanged, bytes
\* [L, o) are zero, bytes [o, o+k) are the written ones; and a read that
\* extends past the end returns only the bytes up to the end.
C7_WriteBeyondEnd ==
    \A t \in Threads :
       /\ (/\ Returned(t, "write")
           /\ KeyOf(t) \in DOMAIN th[t].db0
           /\ Len(th[t].buf) >= 1
           /\ th[t].offset > Len(th[t].db0[KeyOf(t)])) =>
             LET old == th[t].db0[KeyOf(t)]
                 new == store[KeyOf(t)]
                 o == th[t].offset
             IN  /\ th[t].ret = Len(th[t].buf)
                 /\ Len(new) = o + Len(th[t].buf)
                 /\ \A i \in 1..Len(old) : new[i] = old[i]
                 /\ \A i \in (Len(old) + 1)..o : new[i] = 0
                 /\ \A i \in 1..Len(th[t].buf) : new[o + i] = th[t].buf[i]
       /\ (/\ Returned(t, "read")
           /\ KeyOf(t) \in DOMAIN store
           /\ th[t].size >= 1
           /\ th[t].offset + th[t].size > Len(store[KeyOf(t)])) =>
             /\ th[t].rbuf = SubSeq(store[KeyOf(t)], th[t].offset + 1,
                                    Len(store[KeyOf(t)]))
             /\ th[t].ret = Len(th[t].rbuf)

C7_Witness ==
    \E t \in Threads :
       /\ Returned(t, "write")
       /\ KeyOf(t) \in DOMAIN th[t].db0
       /\ Len(th[t].db0[KeyOf(t)]) >= 1
       /\ th[t].db0[KeyOf(t)][1] = 1
       /\ th[t].offset > Len(th[t].db0[KeyOf(t)])
       /\ th[t].buf = <<1>>
       /\ store[KeyOf(t)] = th[t].db0[KeyOf(t)] \o <<0, 1>>

\* C8: a write of k bytes at offset o into an existing file of length L with
\* o + k <= L returns exactly k; bytes [o, o+k) become the written ones, every
\* other byte and the length stay.
C8_WriteInside ==
    \A t \in Threads :
       (/\ Returned(t, "write")
        /\ KeyOf(t) \in DOMAIN th[t].db0
        /\ th[t].offset + Len(th[t].buf) <= Len(th[t].db0[KeyOf(t)])) =>
          LET old == th[t].db0[KeyOf(t)]
              new == store[KeyOf(t)]
              o == th[t].offset
          IN  /\ th[t].ret = Len(th[t].buf)
              /\ Len(new) = Len(old)
              /\ \A i \in 1..Len(old) :
                    new[i] = IF i > o /\ i <= o + Len(th[t].buf)
                             THEN th[t].buf[i - o] ELSE old[i]
              /\ OthersUnchanged(t)

C8_Witness ==
    \E t \in Threads :
       /\ Returned(t, "write")
       /\ KeyOf(t) \in DOMAIN th[t].db0
       /\ th[t].db0[KeyOf(t)] = <<1, 1, 1>>
       /\ th[t].offset = 1
       /\ th[t].buf = <<0>>
       /\ th[t].ret = 1
       /\ store[KeyOf(t)] = <<1, 0, 1>>

\* C9: for every value v, size >= 0 and offset >= 0 a read returns exactly the
\* bytes v[offset .. min(offset+size, len(v))), never more than size bytes.
C9_ReadRangeExact ==
    \A t \in Threads :
       (Returned(t, "read") /\ KeyOf(t) \in DOMAIN store) =>
          /\ th[t].rbuf = ReadOf(store[KeyOf(t)], th[t].size, th[t].offset)
          /\ th[t].ret = Len(th[t].rbuf)
          /\ th[t].ret <= th[t].size

\* C10: under sequential dispatch truncate of an existing file with value v to
\* newsize <= len(v) leaves exactly the first newsize bytes of v (nothing
\* changes when newsize = len(v), the empty value when newsize = 0), and a
\* read of an empty file returns 0 bytes.
C10_TruncateKeepsPrefix ==
    \A t \in Threads :
       /\ (/\ Returned(t, "truncate")
           /\ KeyOf(t) \in DOMAIN th[t].db0
           /\ th[t].size <= Len(th[t].db0[KeyOf(t)])) =>
             /\ th[t].ret = 0
             /\ KeyOf(t) \in DOMAIN store
             /\ store[KeyOf(t)] = SubSeq(th[t].db0[KeyOf(t)], 1, th[t].size)
             /\ OthersUnchanged(t)
       /\ (/\ Returned(t, "read")
           /\ KeyOf(t) \in DOMAIN store
           /\ store[KeyOf(t)] = <<>>
           /\ th[t].size >= 1) =>
             th[t].ret = 0 /\ th[t].rbuf = <<>>

C10_Witness ==
    \E t \in Threads :
       /\ Returned(t, "truncate")
       /\ KeyOf(t) \in DOMAIN th[t].db0
       /\ th[t].db0[KeyOf(t)] = <<1, 0, 1>>
       /\ th[t].size = 2
       /\ th[t].ret = 0
       /\ store[KeyOf(t)] = <<1, 0>>

\* n null bytes
Zeros(n) == [i \in 1..n |-> 0]

\* C11: under sequential dispatch truncate of an existing file with value v to
\* newsize > len(v) returns 0 and leaves v followed by newsize - len(v) null
\* bytes: the length is newsize, no byte of v is changed, no other key is
\* touched.
C11_GrowAppendsZeros ==
    \A t \in Threads :
       (/\ Returned(t, "truncate")
        /\ KeyOf(t) \in DOMAIN th[t].db0
        /\ th[t].size > Len(th[t].db0[KeyOf(t)])) =>
          LET v == th[t].db0[KeyOf(t)]
          IN  /\ th[t].ret = 0
              /\ KeyOf(t) \in DOMAIN store
              /\ Len(store[KeyOf(t)]) = th[t].size
              /\ store[KeyOf(t)] = v \o Zeros(th[t].size - Len(v))
              /\ OthersUnchanged(t)

C11_Witness ==
    \E t \in Threads :
       /\ Returned(t, "truncate")
       /\ KeyOf(t) \in DOMAIN th[t].db0
       /\ th[t].db0[KeyOf(t)] = <<1>>
       /\ th[t].size = 3
       /\ th[t].ret = 0
       /\ store[KeyOf(t)] = <<1, 0, 0>>

\* C12: truncate of a path whose key is absent returns -ENOENT for every
\* newsize and leaves the store as it was: no key is created, no value is
\* written.
C12_ResizeAbsentNotFound ==
    \A t \in Threads :
       (Returned(t, "truncate") /\ KeyOf(t) \notin DOMAIN th[t].db0) =>
          th[t].ret = -ENOENT /\ store = th[t].db0

\* C13: rename of an existing src onto a distinct existing dst issues no
\* command but RENAME (no existence check of dst) and succeeds; afterwards dst
\* holds the value src had, src is absent and every other key is as it was.
C13_RenameOverwrites ==
    \A t \in Threads :
       /\ (th[t].op = "rename" /\ th[t].ex # "none") => th[t].cmd.name = "RENAME"
       /\ (/\ Returned(t, "rename")
           /\ FILE_NAME(th[t].path) # FILE_NAME(th[t].path2)
           /\ FILE_NAME(th[t].path) \in DOMAIN th[t].db0
           /\ FILE_NAME(th[t].path2) \in DOMAIN th[t].db0) =>
             LET src == FILE_NAME(th[t].path)
                 dst == FILE_NAME(th[t].path2)
             IN  /\ th[t].ret = 0
                 /\ src \notin DOMAIN store
                 /\ dst \in DOMAIN store
                 /\ store[dst] = th[t].db0[src]
                 /\ \A k \in Names \ {src, dst} :
                       /\ (k \in DOMAIN store) = (k \in DOMAIN th[t].db0)
                       /\ k \in DOMAIN store => store[k] = th[t].db0[k]

\* C14: the store starts empty and names come into it by creation; under
\* sequential dispatch readdir of "/" with a buffer that never fills returns 0
\* and has delivered exactly the names that exist, each exactly once, in some
\* order.
C14_ListExactlyTheNames ==
    \A t \in Threads :
       (/\ Returned(t, "readdir")
        /\ IsRoot(th[t].path)
        /\ th[t].cap >= Cardinality(DOMAIN store)) =>
          /\ th[t].ret = 0
          /\ Len(th[t].delivered) = Cardinality(DOMAIN store)
          /\ {th[t].delivered[i] : i \in DOMAIN th[t].delivered} = DOMAIN store

C14_Witness ==
    \E t \in Threads :
       /\ Returned(t, "readdir")
       /\ DOMAIN store = Names
       /\ th[t].ret = 0
       /\ th[t].delivered = <<<<"b">>, <<"a">>>>

\* C15: when filler reports a full buffer during kvs_ReadDirectory (the reply
\* holds more names than the buffer takes) the loop stops: the names delivered
\* are the names of the reply before the one that was refused, no name after
\* it is delivered, the reply is released and the result is -ENOMEM.
C15_SinkFullStops ==
    [][\A t \in Threads :
         (/\ th[t].kfn = "ReadDirectory" /\ th[t].ex = "ret" /\ th[t].result >= 0
          /\ th'[t].fpc = "done"
          /\ Len(th[t].kvsReply.element) > th[t].cap) =>
            /\ th'[t].ret = -ENOMEM
            /\ th'[t].delivered = SubSeq(th[t].kvsReply.element, 1, th[t].cap)
            /\ th'[t].replies = th[t].replies - 1
            /\ store' = store]_vars

C15_Witness ==
    \E t \in Threads :
       /\ Returned(t, "readdir")
       /\ DOMAIN store = Names
       /\ th[t].ret = -ENOMEM
       /\ Len(th[t].delivered) = 1

\* C16: unlink of a name whose key is absent returns -ENOENT and leaves the
\* store as it was; unlink of an existing name returns 0 and removes exactly
\* that key; so the second of two unlinks of the same name in a row returns
\* -ENOENT.
C16_RemoveOutcome ==
    \A t \in Threads :
       (Returned(t, "unlink") /\ ~IsRoot(th[t].path)) =>
          /\ KeyOf(t) \notin DOMAIN th[t].db0 =>
                th[t].ret = -ENOENT /\ store = th[t].db0
          /\ KeyOf(t) \in DOMAIN th[t].db0 =>
                th[t].ret = 0 /\ store = Drop(th[t].db0, KeyOf(t))
          /\ th[t].second => th[t].ret = -ENOENT

\* C17: under sequential dispatch open of an absent key creates it empty when
\* O_CREAT is set and otherwise returns -ENOENT and changes nothing; open of
\* an existing key empties it when O_TRUNC is set and otherwise changes
\* nothing; an open without O_CREAT right after a successful open with
\* O_CREAT of the same path returns 0.
C17_OpenOutcome ==
    \A t \in Threads :
       (Returned(t, "open") /\ ~IsRoot(th[t].path)) =>
          LET creat == BitAnd(th[t].mode, O_CREAT) # 0
              trunc == BitAnd(th[t].mode, O_TRUNC) # 0
              was == KeyOf(t) \in DOMAIN th[t].db0
          IN  /\ (~was /\ creat) =>
                    th[t].ret = 0 /\ store = Put(th[t].db0, KeyOf(t), <<>>)
              /\ (~was /\ ~creat) =>
                    th[t].ret = -ENOENT /\ store = th[t].db0
              /\ (was /\ trunc) =>
                    th[t].ret = 0 /\ store = Put(th[t].db0, KeyOf(t), <<>>)
              /\ (was /\ ~trunc) =>
                    th[t].ret = 0 /\ store = th[t].db0
              /\ th[t].second => th[t].ret = 0

C17_Witness ==
    \E t \in Threads :
       /\ Returned(t, "open")
       /\ th[t].second
       /\ th[t].mode = O_TRUNC
       /\ th[t].ret = 0
       /\ KeyOf(t) \in DOMAIN store

\* C18: "/" is the only directory: unlink, open, read and write of "/" return
\* -EISDIR, opendir and readdir of any other path return -ENOTDIR; the
\* callback returns in the step it is invoked in, so no store command is
\* issued, and the store is as it was.
C18_RootIsTheDirectory ==
    [][\A t \in Threads :
         (th[t].fpc = "idle" /\ th'[t].fpc # "idle") =>
            /\ (th'[t].op \in {"unlink", "open", "read", "write"}
                   /\ IsRoot(th'[t].path)) =>
                  /\ th'[t].fpc = "done" /\ th'[t].ret = -EISDIR
                  /\ th'[t].ex = "none" /\ store' = store
            /\ (th'[t].op \in {"opendir", "readdir"} /\ ~IsRoot(th'[t].path)) =>
                  /\ th'[t].fpc = "done" /\ th'[t].ret = -ENOTDIR
                  /\ th'[t].ex = "none" /\ store' = store]_vars

C18_Witness ==
    \E t \in Threads :
       /\ Returned(t, "readdir")
       /\ ~IsRoot(th[t].path)
       /\ th[t].ret = -ENOTDIR
       /\ DOMAIN store = Names

UnsupportedOps ==
    {"mkdir", "rmdir", "symlink", "readlink", "link", "chmod", "chown", "utime",
     "statfs", "setxattr", "getxattr", "listxattr", "removexattr"}

\* C19: every operation of the unsupported set returns -ENOSYS for every path
\* and in every state of the store: the callback returns in the step it is
\* invoked in, with no store command, and the store and the connection are as
\* they were.
C19_UnsupportedSet ==
    /\ [](\A t \in Threads :
            th[t].op \in UnsupportedOps =>
               th[t].fpc = "done" /\ th[t].ret = -ENOSYS /\ th[t].ex = "none")
    /\ [][\A t \in Threads :
            (th[t].fpc = "idle" /\ th'[t].op \in UnsupportedOps) =>
               store' = store /\ redisCtx' = redisCtx /\ proc' = proc]_vars

C19_Witness ==
    \E t \in Threads :
       /\ Returned(t, "chmod")
       /\ ~IsRoot(th[t].path)
       /\ KeyOf(t) \in DOMAIN store
       /\ th[t].ret = -ENOSYS

\* C20 as stated: open, flush, release, opendir and releasedir change no key
\* and no value of the store, for every path and every flag combination.
C20_NoOpsIncludingOpen ==
    \A t \in Threads :
       (\E op \in {"open", "flush", "release", "opendir", "releasedir"} :
           Returned(t, op)) => store = th[t].db0

\* C20: flush, release, opendir and releasedir issue no store command and
\* change no key and no value of the store, for every path and every flag
\* combination; open changes the store only by creating an absent key, empty,
\* when O_CREAT is set, or by emptying an existing key when O_TRUNC is set.
C20_NoOpsAgainstStore ==
    /\ [](\A t \in Threads :
            /\ th[t].op \in {"flush", "release", "opendir", "releasedir"} =>
                  th[t].fpc = "done" /\ th[t].ex = "none" /\ store = th[t].db0
            /\ (th[t].op = "open" /\ th[t].fpc # "idle" /\ store # th[t].db0) =>
                  /\ store = Put(th[t].db0, KeyOf(t), <<>>)
                  /\ \/ /\ KeyOf(t) \notin DOMAIN th[t].db0
                        /\ BitAnd(th[t].mode, O_CREAT) # 0
                     \/ /\ KeyOf(t) \in DOMAIN th[t].db0
                        /\ BitAnd(th[t].mode, O_TRUNC) # 0)
    /\ [][\A t \in Threads :
            (th[t].fpc = "idle"
               /\ th'[t].op \in {"flush", "release", "opendir", "releasedir"}) =>
                  store' = store]_vars

C20_Witness ==
    \E t \in Threads :
       /\ Returned(t, "open")
       /\ th[t].mode = 0
       /\ th[t].ret = 0
       /\ Len(store[KeyOf(t)]) >= 2
       /\ store = th[t].db0

\* the error the existence or length query of getattr or truncate ended in
\* (0 when it ended without one), for a thread whose kvs_RedisCommand returned
LengthQueryError(r) ==
    CASE r.kfn = "KeyExists" ->
           Min(KeyExistsResult(r.result, r.kvsReply), 0)
      [] r.kfn = "GetKeyLength.exists" ->
           IF KeyExistsResult(r.result, r.kvsReply) = 0 THEN -ENOENT
           ELSE Min(KeyExistsResult(r.result, r.kvsReply), 0)
      [] r.kfn = "GetKeyLength.strlen" ->
           Min(ToOffT(StrlenResult(r.result, r.kvsReply)), 0)
      [] OTHER -> 0

\* C21: when the existence or length query of getattr or truncate ends in an
\* error (error reply, unexpected reply type, -ENOENT from kvs_GetKeyLength)
\* the callback returns that negative code at once: it does not return
\* success and it issues no further store command.
C21_LengthErrorsReturned ==
    [][\A t \in Threads :
         (/\ th[t].ex = "ret"
          /\ th[t].fpc \in {"getattr.exists", "getattr.length", "truncate.length"}
          /\ LengthQueryError(th[t]) < 0
          /\ th'[t] # th[t]) =>
            /\ th'[t].fpc = "done"
            /\ th'[t].ret = LengthQueryError(th[t])
            /\ th'[t].ex = "none"]_vars

\* C22: Create sets the key's value to empty whatever it was before and is
\* idempotent.  When kvs_CreateEmptyKey has its result, the result is 0 and the
\* store is the one of the call with the key set to the empty value; a create
\* (mknod without the exclusive bit) that follows a successful one on the same
\* name returns the same result and leaves the store as the first left it.
C22_CreateIdempotent ==
    \A t \in Threads :
       /\ (th[t].kfn = "CreateEmptyKey" /\ th[t].ex = "ret") =>
             /\ th[t].result = 0
             /\ th[t].cmd.key \in DOMAIN store
             /\ Len(store[th[t].cmd.key]) = 0
             /\ store = Put(th[t].db0, th[t].cmd.key, <<>>)
       /\ (Returned(t, "mknod") /\ S_ISREG(th[t].mode) /\ ~ModeHasExcl(th[t].mode)) =>
             /\ th[t].ret = 0
             /\ store = Put(th[t].db0, KeyOf(t), <<>>)
             /\ th[t].second => store = th[t].db0

C22_Witness ==
    \E t \in Threads :
       /\ Returned(t, "mknod") /\ ~ModeHasExcl(th[t].mode)
       /\ th[t].second /\ th[t].ret = 0
       /\ store = th[t].db0 /\ store[KeyOf(t)] = <<>>

C27_ExecutorPostcondition ==
    \A t \in Threads :
       th[t].ex = "ret" =>
          /\ th[t].result \in {0, -EIO}
          /\ th[t].result = 0 => th[t].kvsReply.type \notin {"NULL", "ERROR"}
          /\ th[t].result = -EIO => th[t].kvsReply = NoReply
          /\ proc = "serving" /\ redisCtx = "live"
          /\ th[t].issued >= 1 /\ th[t].nulls < th[t].issued
          /\ th[t].replies = (IF th[t].result = 0 THEN 1 ELSE 0)
                             + (IF th[t].reply1.type # "NULL" THEN 1 ELSE 0)

C27_Witness ==
    \E t \in Threads :
       /\ th[t].ex = "ret" /\ th[t].result = -EIO /\ th[t].kvsReply = NoReply
       /\ th[t].nulls = 1 /\ th[t].issued = 2

\* C28: reply ownership is balanced.  Every reply the executor handed to a
\* kvs_ primitive is released exactly once before the primitive returns: a
\* callback that has returned holds no reply, and the number of replies held
\* never falls below zero.
C28_RepliesBalanced ==
    \A t \in Threads :
       /\ th[t].replies >= 0
       /\ th[t].fpc \in {"done", "idle"} => th[t].replies = 0

\* C30: rename with an absent source key fails with the generic I/O error, not
\* with not-found, and leaves the store unchanged: the destination keeps its
\* value if it had one and is not created if it had none.
C30_RenameAbsentSource ==
    \A t \in Threads :
       (Returned(t, "rename") /\ KeyOf(t) \notin DOMAIN th[t].db0) =>
          /\ th[t].ret = -EIO
          /\ store = th[t].db0

C30_Witness ==
    \E t \in Threads :
       /\ Returned(t, "rename") /\ KeyOf(t) \notin DOMAIN th[t].db0
       /\ FILE_NAME(th[t].path2) \in DOMAIN store
       /\ store[FILE_NAME(th[t].path2)] # <<>>
       /\ th[t].ret = -EIO

Resized(v, n) == IF n <= Len(v) THEN SubSeq(v, 1, n) ELSE v \o Zeros(n - Len(v))

\* C29: the handle-based variants equal the path-based ones.  For every path,
\* the root included, an fgetattr that follows a getattr of the same path
\* returns the same result and the same attributes; ftruncate and truncate of
\* an existing file both return 0 and leave the value resized, no other key
\* touched, and of an absent file both leave a value of the new size.
C29_HandleVariantsEqual ==
    \A t \in Threads :
       /\ (Returned(t, "fgetattr") /\ th[t].second) =>
             /\ th[t].ret = th[t].prevRet
             /\ th[t].statbuf = th[t].prevStat
       /\ \A op \in {"truncate", "ftruncate"} :
             Returned(t, op) =>
                /\ th[t].ret = 0
                /\ KeyOf(t) \in DOMAIN store
                /\ OthersUnchanged(t)
                /\ IF KeyOf(t) \in DOMAIN th[t].db0
                   THEN store[KeyOf(t)] = Resized(th[t].db0[KeyOf(t)], th[t].size)
                   ELSE Len(store[KeyOf(t)]) = th[t].size

\* C24: truncate is a ranged read followed by an overwriting SET and is not
\* atomic against a concurrent write of the same key.  The SET of
\* kvs_TruncateKey stores the first newsize bytes of what its GETRANGE
\* returned, whatever the key holds when the SET is executed; so a write that
\* the store executes between the two is lost.  The witness is such a run:
\* both callbacks were invoked on the same value and returned success, the
\* write was executed while truncate held the reply of its ranged read, and
\* the final value is the prefix of the old value, which is the result of
\* neither serial order.
C24_TruncateStoresWhatItRead ==
    [][\A t \in Threads :
         (/\ th[t].kfn = "TruncateKey.set"
          /\ th[t].ex = "issue"
          /\ th'[t].ex = "after") =>
            /\ th[t].cmd.key \in DOMAIN store'
            /\ store'[th[t].cmd.key] = th[t].cmd.val
            /\ th[t].ksz > 0 =>
                  /\ th[t].reply1.type = "STRING"
                  /\ Len(th[t].reply1.str) >= th[t].ksz =>
                        store'[th[t].cmd.key] = SubSeq(th[t].reply1.str, 1, th[t].ksz)]_vars

C24_Witness ==
    LET k == FILE_NAME(SharedFile)
        v0 == th["t1"].db0[k]
        n == th["t1"].size
        off == th["t2"].offset
        buf == th["t2"].buf
    IN  /\ Returned("t1", "truncate") /\ th["t1"].ret = 0
        /\ Returned("t2", "write") /\ th["t2"].ret = Len(buf)
        /\ k \in DOMAIN th["t1"].db0
        /\ th["t2"].db0 = th["t1"].db0
        /\ n > 0 /\ n < Len(v0)
        /\ Len(buf) >= 1 /\ off < n
        /\ store[k] = SubSeq(v0, 1, n)
        /\ store[k] # SetRange(Resized(v0, n), off, buf)
        /\ store[k] # Resized(SetRange(v0, off, buf), n)

\* C25: the process-wide handle is used without any synchronization.  A
\* thread that is about to send a command can do so in every state of the
\* serving process, whether the handle is live or freed and whatever the other
\* thread is doing with it, and a thread that got NULL can go on to read and
\* free the handle in every state.  The witness is a thread whose command is
\* in flight on a handle that the other thread's failure path has freed and
\* not yet replaced, and that earlier sent a command while a command of the
\* other thread was in flight.
C25_HandleUnguarded ==
    \A t \in Threads :
       /\ (proc = "serving" /\ th[t].ex = "issue") => ENABLED RedisvCommandSend(t)
       /\ (proc = "serving" /\ th[t].ex = "null") => ENABLED RedisFree(t)

C25_Witness ==
    \E t \in Threads, o \in Threads :
       /\ o # t
       /\ proc = "serving"
       /\ th[t].ex = "sent.dangling"
       /\ th[t].overlapped
       /\ th[o].ex = "reconnect"
       /\ redisCtx = "freed"

\* C31: read and write make no existence check.  For a file path whose key is
\* absent a read returns 0 bytes, with success, and leaves the store as it
\* was; a write of k >= 1 bytes at offset o returns k and creates the key
\* with o null bytes followed by the bytes written, no other key touched.
C31_NoExistenceCheck ==
    \A t \in Threads :
       /\ (/\ Returned(t, "read")
           /\ ~IsRoot(th[t].path)
           /\ KeyOf(t) \notin DOMAIN th[t].db0) =>
             /\ th[t].ret = 0
             /\ th[t].rbuf = <<>>
             /\ store = th[t].db0
       /\ (/\ Returned(t, "write")
           /\ ~IsRoot(th[t].path)
           /\ KeyOf(t) \notin DOMAIN th[t].db0
           /\ Len(th[t].buf) >= 1) =>
             /\ th[t].ret = Len(th[t].buf)
             /\ store = Put(th[t].db0, KeyOf(t), Zeros(th[t].offset) \o th[t].buf)

C31_Witness ==
    \E t \in Threads :
       /\ Returned(t, "write")
       /\ th[t].db0 = <<>>
       /\ th[t].offset = 2 /\ th[t].buf = <<1>>
       /\ th[t].ret = 1
       /\ store = Put(<<>>, KeyOf(t), <<0, 0, 1>>)

\* the step in which the store executes the SETRANGE of kvs_AppendZeroedBytes
\* for thread t
AppendExecuted(t) ==
    /\ th[t].kfn = "AppendZeroedBytes"
    /\ th[t].ex = "issue"
    /\ th'[t].ex = "after"

\* C32 as stated: a growing resize only appends.  Under concurrent writes to
\* the same key the ranged write of the resize changes no byte the key holds
\* when it is executed.
C32_GrowChangesNoByte ==
    [][\A t \in Threads :
         AppendExecuted(t) =>
            LET k == th[t].cmd.key
            IN  /\ k \in DOMAIN store'
                /\ \A i \in 1..Len(ValueOf(store, k)) : store'[k][i] = ValueOf(store, k)[i]]_vars

\* C32, amended: a growing resize writes one null byte at offset newsize - 1.
\* When the ranged write is executed every byte the key holds keeps its value
\* except the one at offset newsize - 1, which becomes null whatever a
\* concurrent write stored there after the length query; the value is then
\* at least newsize long and the bytes beyond the old end are null.
C32_GrowWritesOneNull ==
    [][\A t \in Threads :
         AppendExecuted(t) =>
            LET k == th[t].cmd.key
                old == ValueOf(store, k)
                last == th[t].size
            IN  /\ th[t].cmd.a = last - 1
                /\ k \in DOMAIN store'
                /\ Len(store'[k]) = Max(Len(old), last)
                /\ store'[k][last] = 0
                /\ \A i \in 1..Len(store'[k]) :
                      i # last => store'[k][i] = (IF i <= Len(old) THEN old[i] ELSE 0)]_vars

C32_Witness ==
    LET k == FILE_NAME(SharedFile)
        last == th["t1"].size
        off == th["t2"].offset
        buf == th["t2"].buf
    IN  /\ th["t1"].op = "truncate" /\ th["t1"].kfn = "AppendZeroedBytes"
        /\ th["t1"].ex = "after"
        /\ Returned("t2", "write") /\ th["t2"].ret = Len(buf)
        /\ th["t2"].db0 = th["t1"].db0
        /\ k \in DOMAIN th["t1"].db0
        /\ Len(th["t1"].db0[k]) < last
        /\ off < last /\ last <= off + Len(buf)
        /\ buf[last - off] = 1
        /\ store[k][last] = 0

\* C33: exclusive create is exclusive under concurrent dispatch.  When two
\* exclusive creates of the same name, both invoked while the key was absent,
\* have returned, one returned 0 and the other -EEXIST.
C33_ExclusiveCreateExclusive ==
    (/\ \A t \in Threads :
           /\ Returned(t, "mknod")
           /\ S_ISREG(th[t].mode) /\ ModeHasExcl(th[t].mode)
           /\ KeyOf(t) \notin DOMAIN th[t].db0
     /\ KeyOf("t1") = KeyOf("t2")) =>
        {th["t1"].ret, th["t2"].ret} = {0, -EEXIST}

\* C34: an open with O_CREAT and without O_TRUNC never destroys content.
\* When such an open and a concurrent write of k >= 1 bytes to the same file
\* have both returned success, the value holds the bytes written at their
\* offset.
C34_OpenCreateKeepsContent ==
    (/\ Returned("t1", "open") /\ th["t1"].ret = 0
     /\ BitAnd(th["t1"].mode, O_CREAT) # 0
     /\ BitAnd(th["t1"].mode, O_TRUNC) = 0
     /\ Returned("t2", "write") /\ th["t2"].ret = Len(th["t2"].buf)
     /\ Len(th["t2"].buf) >= 1) =>
        /\ KeyOf("t2") \in DOMAIN store
        /\ ReadOf(store[KeyOf("t2")], Len(th["t2"].buf), th["t2"].offset) = th["t2"].buf

\* C35: getattr is consistent under a concurrent unlink.  For a key that
\* existed when getattr was invoked and that only the unlink can change,
\* getattr returns -ENOENT, or 0 with the length the value had; it never
\* returns 0 with a size made from an error code.
C35_AttributesUnderRemove ==
    (Returned("t1", "getattr") /\ KeyOf("t1") \in DOMAIN th["t1"].db0) =>
       \/ th["t1"].ret = -ENOENT
       \/ /\ th["t1"].ret = 0
          /\ th["t1"].statbuf.st_size = Len(th["t1"].db0[KeyOf("t1")])

\* C36: the reissue of a command after a transport failure does not change the
\* reported outcome.  unlink returns -ENOENT only if the key was absent when
\* unlink was invoked, also when the first DEL was applied and its reply lost.
C36_RetryKeepsOutcome ==
    \A t \in Threads :
       (Returned(t, "unlink") /\ th[t].ret = -ENOENT) =>
          KeyOf(t) \notin DOMAIN th[t].db0

\* the least number of blocks of ST_BLKSIZE bytes that hold s bytes
MinBlocks(s) == (s + ST_BLKSIZE - 1) \div ST_BLKSIZE

\* C37: for every file size s getattr reports a block size of 512 and a block
\* count of 0 when s = 0 and s div 512 + 1 when s > 0; the blocks always hold
\* s bytes, and they are one more than needed exactly when s is a positive
\* multiple of 512.
C37_BlockCount ==
    \A t \in Threads :
       (Returned(t, "getattr") /\ th[t].ret = 0 /\ ~IsRoot(th[t].path)) =>
          LET s == th[t].statbuf.st_size
              blocks == th[t].statbuf.st_blocks
          IN  /\ s >= 0
              /\ th[t].statbuf.st_blksize = ST_BLKSIZE
              /\ blocks = (IF s = 0 THEN 0 ELSE (s \div ST_BLKSIZE) + 1)
              /\ ST_BLKSIZE * blocks >= s
              /\ blocks \in {MinBlocks(s), MinBlocks(s) + 1}
              /\ (blocks = MinBlocks(s) + 1) = (s > 0 /\ s % ST_BLKSIZE = 0)

C37_Witness ==
    \E t \in Threads :
       /\ Returned(t, "getattr") /\ th[t].ret = 0
       /\ th[t].statbuf.st_size = 2 * ST_BLKSIZE
       /\ th[t].statbuf.st_blocks = 3
       /\ MinBlocks(th[t].statbuf.st_size) = 2

====
